---- MODULE Spec2Model ----
(***************************************************************************)
(* A model of src/services/routes.js (amphora): the page-creation          *)
(* transaction (createPage), the per-host router builder (module.exports)  *)
(* with the request's walk through the host's middleware chain, and the    *)
(* path normalisation helpers.                                             *)
(*                                                                         *)
(* Strings are modelled as sequences of tokens: the separators "/", "."    *)
(* and "?" are tokens of their own, and every other token stands for a     *)
(* run of characters that holds no separator ("components", "foo", ...).   *)
(* String.split and concatenation then act on the tokens as the JavaScript *)
(* functions act on the characters.                                        *)
(***************************************************************************)
EXTENDS Integers, Sequences, FiniteSets, TLC

(***************************************************************************)
(* Bounds of the model.                                                    *)
(***************************************************************************)
\* largest number of POST /pages requests in flight together
MaxReq == 2
\* largest number of slots in one request body
MaxSlots == 2
\* the clock (Date.now(), in milliseconds) runs from 1 to MaxClock
MaxClock == 2

\* largest number of sites in the registry
MaxSites == 3
\* longest path handed to normalizePath, in tokens
MaxPathLen == 4

\* flake-idgen: the sequence counter is 12 bits wide (seqMask + 1)
SeqMod == 4096
\* flake-idgen: the time is shifted left by 22 bits in the 64-bit id
TimeShift == 4194304

Undefined == "undefined"

Requests == 1..MaxReq
Slots == 1..MaxSlots
Components == {"a", "b"}
Layouts == {Undefined, "layoutRef"}

(***************************************************************************)
(* State of the page-creation transaction, one entry per request.          *)
(***************************************************************************)
VARIABLES
  admitted,       \* how many POST /pages requests the process receives in the run
  clock,          \* Date.now() of the process
  pc,             \* where the promise chain of createPage stands
  body,           \* req.body: [layout, slots], slots maps slot -> component reference
  flake,          \* the request's generator: [lastTime, seq]
  pageReference,  \* '/pages/' + getUniqueId()
  slotState,      \* per slot: the promise stored in pageData[key]
  pageData,       \* per slot: the value the slot's promise was fulfilled with
  ops,            \* the staged batch operations
  batched,        \* the arguments of the db.batch calls made, in order
  value,          \* the object bluebird.props resolved to: [layout, slots, _ref]
  dbPuts,         \* the puts that reached storage: [key, by], by the request of the batch
  resStatus,      \* status of the response sent (0: none sent)
  resBody,        \* body of the response sent
  errlog,         \* log.error calls made by the request's catch handler
  failure,        \* what rejected the chain: "none", "resolve" or "batch"
  rejection,      \* the value it was rejected with: "none", "Error" or "undefined"
  issued,         \* every identifier returned by getUniqueId so far
  reissued        \* the identifiers getUniqueId returned more than once

pageVars == <<admitted, clock, pc, body, flake, pageReference, slotState, pageData, ops,
              batched, value, dbPuts, resStatus, resBody, errlog, failure, rejection,
              issued, reissued>>

(***************************************************************************)
(* State of the router builder and of one request walking a host's chain.  *)
(***************************************************************************)
VARIABLES
  sitesMap,         \* siteService.sites(): the registry, in its order
  siteHosts,        \* siteService.hosts(): the distinct hosts
  hostsDone,        \* how many hosts of siteHosts module.exports has gone through
  sitesOnThisHost,  \* per host: the filtered and sorted sites
  hostMiddleware,   \* per host: the layers of its router, in registration order
  req,              \* the request: [method, host, path, edit, accept]
  idx,              \* the layer of the chain the request stands at
  locals,           \* res.locals: [has (the keys set), site, url, isEditMode, layout]
  phase             \* "building", "listening", "walking", "handled", "site", "passed",
                    \* "failed", "done", "crashed"

(***************************************************************************)
(* State of the handler the request reached and of its response.           *)
(***************************************************************************)
VARIABLES
  job,        \* the computation given to expectJSON/expectHTML: [envelope, fn, key, res]
  err,        \* the failure the computation was rejected with
  renderer,   \* which of notFound and serverError handleError called
  trace,      \* the log calls and the writes to res, in order
  resp,       \* the response sent: [status, kind, message, code, key]
  layoutRun   \* the setLayout handler: [ran, params, before, after], res.locals around it

handlerVars == <<job, err, renderer, trace, resp, layoutRun>>

routeVars == <<sitesMap, siteHosts, hostsDone, sitesOnThisHost, hostMiddleware,
               req, idx, locals, phase, handlerVars>>

(***************************************************************************)
(* State of the path helpers: a path and the results of normalizePath.     *)
(***************************************************************************)
VARIABLES
  npIn,    \* the path given
  npOut    \* normalizePath(npIn), normalizePath of that, ...

pathVars == <<npIn, npOut>>

vars == <<pageVars, routeVars, pathVars>>

----------------------------------------------------------------------------
(***************************************************************************)
(* Identifiers.                                                            *)
(***************************************************************************)

\* flake.next(): [id, gen] from the generator state and the clock.  The id is
\* time << 22 | generatorId << 12 | seq; new Flake() has generatorId 0.  In
\* the same millisecond the counter is increased, otherwise it restarts at 0.
FlakeNext(gen, now) ==
  LET seq == IF now = gen.lastTime THEN (gen.seq + 1) % SeqMod ELSE 0
  IN  [id  |-> now * TimeShift + seq,
       gen |-> [lastTime |-> now, seq |-> seq]]

\* new Flake(): no id was generated yet
NewFlake == [lastTime |-> 0, seq |-> 0]

\* getUniqueId(): flake.next().toString('base64').  The base64 text of the
\* 8-byte id is one-to-one with the id, which stands for it here.
getUniqueId(gen, now) == FlakeNext(gen, now)

\* a key is a prefix with an identifier appended
PageKey(id) == [prefix |-> <<"/", "pages", "/">>, id |-> id]
InstanceKey(c, id) ==
  [prefix |-> <<"/", "components", "/", c, "/", "instances", "/">>, id |-> id]

\* references.getComponentName(value): the component a slot's value names
getComponentName(v) == v.name
ComponentRef(c) == [ref |-> "component", name |-> c]

\* references.getComponentData('/components/' + name) when it resolves
ComponentData(c) == [defaultsOf |-> <<"/", "components", "/", c>>]

PutOp(k, v) == [type |-> "put", key |-> k, value |-> v]

\* one call on log or on res, with the status it carries (0 when none)
Ev(op, arg) == [op |-> op, arg |-> arg]

Resp(status, kind, message, code, key) ==
  [status |-> status, kind |-> kind, message |-> message, code |-> code, key |-> key]
NoResp == Resp(0, "none", <<>>, 0, <<>>)

\* the part of the route state a handler's later steps leave alone
walkVars == <<sitesMap, siteHosts, hostsDone, sitesOnThisHost, hostMiddleware,
              req, idx, locals>>

\* the request of the transaction came in through the host's router
Walked == job.fn = "createPage"

\* the request bodies: a layout and the slots 1..n, each naming a component
Bodies ==
  { [layout |-> l, slots |-> f] :
      l \in Layouts,
      f \in UNION { [1..n -> {ComponentRef(c) : c \in Components}] : n \in 0..MaxSlots } }

SlotsOf(r) == DOMAIN body[r].slots

\* what getComponentData or db.batch rejects with: a value that has a stack
\* to read (an Error), or undefined (or null)
PageRejections == {"Error", "undefined"}

----------------------------------------------------------------------------
\* no request has come in yet; n requests will
InitPageWith(n) ==
  /\ admitted = n
  /\ clock = 1
  /\ pc = [r \in Requests |-> "idle"]
  /\ body = [r \in Requests |-> [layout |-> Undefined, slots |-> <<>>]]
  /\ flake = [r \in Requests |-> NewFlake]
  /\ pageReference = [r \in Requests |-> PageKey(0)]
  /\ slotState = [r \in Requests |-> [s \in Slots |-> "none"]]
  /\ pageData = [r \in Requests |-> [s \in Slots |-> InstanceKey("a", 0)]]
  /\ ops = [r \in Requests |-> <<>>]
  /\ batched = [r \in Requests |-> <<>>]
  /\ value = [r \in Requests |-> [layout |-> Undefined, slots |-> <<>>, ref |-> PageKey(0)]]
  /\ dbPuts = {}
  /\ resStatus = [r \in Requests |-> 0]
  /\ resBody = [r \in Requests |-> [layout |-> Undefined, slots |-> <<>>, ref |-> PageKey(0)]]
  /\ errlog = [r \in Requests |-> 0]
  /\ failure = [r \in Requests |-> "none"]
  /\ rejection = [r \in Requests |-> "none"]
  /\ issued = {}
  /\ reissued = {}

\* the clock of the process advances
Tick ==
  /\ clock < MaxClock
  /\ clock' = clock + 1
  /\ UNCHANGED rejection
  /\ UNCHANGED <<admitted, pc, body, flake, pageReference, slotState, pageData, ops,
                 batched, value, dbPuts, resStatus, resBody, errlog, failure, issued,
                 reissued>>
  /\ UNCHANGED <<routeVars, pathVars>>

\* createPage(req, res), the synchronous part: a new generator, the page
\* reference, and one getComponentData call per slot of the body.
StartPage(r, b) ==
  /\ pc[r] = "idle"
  /\ r <= admitted
  /\ \A q \in Requests : q < r => pc[q] # "idle"
  /\ LET u == getUniqueId(NewFlake, clock)
     IN  /\ flake' = [flake EXCEPT ![r] = u.gen]
         /\ pageReference' = [pageReference EXCEPT ![r] = PageKey(u.id)]
         /\ issued' = issued \cup {u.id}
         /\ reissued' = IF u.id \in issued THEN reissued \cup {u.id} ELSE reissued
  /\ body' = [body EXCEPT ![r] = b]
  /\ slotState' = [slotState EXCEPT ![r] =
                     [s \in Slots |-> IF s \in DOMAIN b.slots THEN "pending" ELSE "none"]]
  /\ pc' = [pc EXCEPT ![r] = "pending"]
  /\ UNCHANGED rejection
  /\ UNCHANGED <<admitted, clock, pageData, ops, batched, value, dbPuts, resStatus, resBody,
                 errlog, failure>>

\* a POST /pages request handled by createPage
createPage(r, b) ==
  /\ StartPage(r, b)
  /\ UNCHANGED <<routeVars, pathVars>>

\* ResolveSlot naming the instance after the component of the body's last
\* slot (the name captured once for all callbacks)
ResolveSlotLastName(r, s) ==
  /\ slotState[r][s] = "pending"
  /\ LET c == getComponentName(body[r].slots[Len(body[r].slots)])
         u == getUniqueId(flake[r], clock)
         componentInstance == InstanceKey(c, u.id)
     IN  /\ flake' = [flake EXCEPT ![r] = u.gen]
         /\ issued' = issued \cup {u.id}
         /\ reissued' = IF u.id \in issued THEN reissued \cup {u.id} ELSE reissued
         /\ ops' = [ops EXCEPT ![r] = Append(@, PutOp(componentInstance, ComponentData(c)))]
         /\ pageData' = [pageData EXCEPT ![r][s] = componentInstance]
  /\ slotState' = [slotState EXCEPT ![r][s] = "fulfilled"]
  /\ UNCHANGED rejection
  /\ UNCHANGED <<admitted, clock, pc, body, pageReference, batched, value, dbPuts, resStatus,
                 resBody, errlog, failure>>
  /\ UNCHANGED <<routeVars, pathVars>>

\* getComponentData of slot s resolves and its then-callback runs: a new
\* instance key, a put staged in ops, the key as the slot's value.
ResolveSlot(r, s) ==
  /\ slotState[r][s] = "pending"
  /\ LET c == getComponentName(body[r].slots[s])
         u == getUniqueId(flake[r], clock)
         componentInstance == InstanceKey(c, u.id)
     IN  /\ flake' = [flake EXCEPT ![r] = u.gen]
         /\ issued' = issued \cup {u.id}
         /\ reissued' = IF u.id \in issued THEN reissued \cup {u.id} ELSE reissued
         /\ ops' = [ops EXCEPT ![r] = Append(@, PutOp(componentInstance, ComponentData(c)))]
         /\ pageData' = [pageData EXCEPT ![r][s] = componentInstance]
  /\ slotState' = [slotState EXCEPT ![r][s] = "fulfilled"]
  /\ UNCHANGED rejection
  /\ UNCHANGED <<admitted, clock, pc, body, pageReference, batched, value, dbPuts, resStatus,
                 resBody, errlog, failure>>
  /\ UNCHANGED <<routeVars, pathVars>>

\* getComponentData of slot s rejects: bluebird.props rejects with the first
\* rejection, which skips both then-callbacks of the chain.
RejectSlot(r, s, e) ==
  /\ slotState[r][s] = "pending"
  /\ slotState' = [slotState EXCEPT ![r][s] = "rejected"]
  /\ IF pc[r] = "pending"
       THEN /\ pc' = [pc EXCEPT ![r] = "rejected"]
            /\ failure' = [failure EXCEPT ![r] = "resolve"]
            /\ rejection' = [rejection EXCEPT ![r] = e]
       ELSE UNCHANGED <<pc, failure, rejection>>
  /\ UNCHANGED <<admitted, clock, body, flake, pageReference, pageData, ops, batched, value,
                 dbPuts, resStatus, resBody, errlog, issued, reissued>>
  /\ UNCHANGED <<routeVars, pathVars>>

\* PropsThen as a join that waits for every slot to settle, fulfilled or
\* rejected, and then carries on (settle in place of props)
PropsThenSettled(r) ==
  /\ pc[r] \in {"pending", "rejected"}
  /\ batched[r] = <<>>
  /\ \A s \in SlotsOf(r) : slotState[r][s] \in {"fulfilled", "rejected"}
  /\ LET v == [layout |-> body[r].layout,
               slots  |-> [s \in SlotsOf(r) |-> pageData[r][s]],
               ref    |-> PageKey(0)]
         staged == Append(ops[r], PutOp(pageReference[r], v))
     IN  /\ value' = [value EXCEPT ![r] = v]
         /\ ops' = [ops EXCEPT ![r] = staged]
         /\ batched' = [batched EXCEPT ![r] = Append(@, staged)]
  /\ pc' = [pc EXCEPT ![r] = "batch"]
  /\ UNCHANGED rejection
  /\ UNCHANGED <<admitted, clock, body, flake, pageReference, slotState, pageData, dbPuts,
                 resStatus, resBody, errlog, failure, issued, reissued>>
  /\ UNCHANGED <<routeVars, pathVars>>

\* PropsThen as a join that carries on with the first fulfilled slot (any in
\* place of props)
PropsThenAny(r) ==
  /\ pc[r] = "pending"
  /\ \/ SlotsOf(r) = {}
     \/ \E s \in SlotsOf(r) : slotState[r][s] = "fulfilled"
  /\ LET v == [layout |-> body[r].layout,
               slots  |-> [s \in SlotsOf(r) |-> pageData[r][s]],
               ref    |-> PageKey(0)]
         staged == Append(ops[r], PutOp(pageReference[r], v))
     IN  /\ value' = [value EXCEPT ![r] = v]
         /\ ops' = [ops EXCEPT ![r] = staged]
         /\ batched' = [batched EXCEPT ![r] = Append(@, staged)]
  /\ pc' = [pc EXCEPT ![r] = "batch"]
  /\ UNCHANGED rejection
  /\ UNCHANGED <<admitted, clock, body, flake, pageReference, slotState, pageData, dbPuts,
                 resStatus, resBody, errlog, failure, issued, reissued>>
  /\ UNCHANGED <<routeVars, pathVars>>

\* PropsThen staging the page put ahead of the component puts (unshift in
\* place of push)
PropsThenPageFirst(r) ==
  /\ pc[r] = "pending"
  /\ \A s \in SlotsOf(r) : slotState[r][s] = "fulfilled"
  /\ LET v == [layout |-> body[r].layout,
               slots  |-> [s \in SlotsOf(r) |-> pageData[r][s]],
               ref    |-> PageKey(0)]
         staged == <<PutOp(pageReference[r], v)>> \o ops[r]
     IN  /\ value' = [value EXCEPT ![r] = v]
         /\ ops' = [ops EXCEPT ![r] = staged]
         /\ batched' = [batched EXCEPT ![r] = Append(@, staged)]
  /\ pc' = [pc EXCEPT ![r] = "batch"]
  /\ UNCHANGED rejection
  /\ UNCHANGED <<admitted, clock, body, flake, pageReference, slotState, pageData, dbPuts,
                 resStatus, resBody, errlog, failure, issued, reissued>>
  /\ UNCHANGED <<routeVars, pathVars>>

\* bluebird.props(pageData) is fulfilled once every slot's promise is; its
\* then-callback stages the page put and calls db.batch(ops).
PropsThen(r) ==
  /\ pc[r] = "pending"
  /\ \A s \in SlotsOf(r) : slotState[r][s] = "fulfilled"
  /\ LET v == [layout |-> body[r].layout,
               slots  |-> [s \in SlotsOf(r) |-> pageData[r][s]],
               ref    |-> PageKey(0)]
         staged == Append(ops[r], PutOp(pageReference[r], v))
     IN  /\ value' = [value EXCEPT ![r] = v]
         /\ ops' = [ops EXCEPT ![r] = staged]
         /\ batched' = [batched EXCEPT ![r] = Append(@, staged)]
  /\ pc' = [pc EXCEPT ![r] = "batch"]
  /\ UNCHANGED rejection
  /\ UNCHANGED <<admitted, clock, body, flake, pageReference, slotState, pageData, dbPuts,
                 resStatus, resBody, errlog, failure, issued, reissued>>
  /\ UNCHANGED <<routeVars, pathVars>>

\* db.batch acknowledges: every key of the batch is in storage, and the
\* callback sets value._ref = pageReference.  value is the object the page put
\* of ops holds, so the put in ops shows the _ref too; the arguments recorded
\* when db.batch was called do not.
BatchAck(r) ==
  /\ pc[r] = "batch"
  /\ dbPuts' = dbPuts \cup { [key |-> batched[r][1][i].key, by |-> r] : i \in 1..Len(batched[r][1]) }
  /\ value' = [value EXCEPT ![r].ref = pageReference[r]]
  /\ ops' = [ops EXCEPT ![r] =
               [i \in 1..Len(ops[r]) |->
                  IF ops[r][i].key = pageReference[r]
                    THEN [ops[r][i] EXCEPT !.value.ref = pageReference[r]]
                    ELSE ops[r][i]]]
  /\ pc' = [pc EXCEPT ![r] = "acked"]
  /\ UNCHANGED rejection
  /\ UNCHANGED <<admitted, clock, body, flake, pageReference, slotState, pageData, batched,
                 resStatus, resBody, errlog, failure, issued, reissued>>
  /\ UNCHANGED <<routeVars, pathVars>>

\* db.batch rejects with e: nothing is written, the chain is rejected
BatchFail(r, e) ==
  /\ pc[r] = "batch"
  /\ pc' = [pc EXCEPT ![r] = "rejected"]
  /\ failure' = [failure EXCEPT ![r] = "batch"]
  /\ rejection' = [rejection EXCEPT ![r] = e]
  /\ UNCHANGED <<admitted, clock, body, flake, pageReference, slotState, pageData, ops, batched,
                 value, dbPuts, resStatus, resBody, errlog, issued, reissued>>
  /\ UNCHANGED <<routeVars, pathVars>>

\* SendResult without waiting for db.batch (the then-callback not returning
\* the promise of db.batch)
SendResultNoWait(r) ==
  /\ pc[r] \in {"batch", "acked"}
  /\ resStatus' = [resStatus EXCEPT ![r] = 200]
  /\ resBody' = [resBody EXCEPT ![r] = value[r]]
  /\ pc' = [pc EXCEPT ![r] = "sent"]
  /\ UNCHANGED rejection
  /\ UNCHANGED <<admitted, clock, body, flake, pageReference, slotState, pageData, ops, batched,
                 value, dbPuts, errlog, failure, issued, reissued>>
  /\ IF Walked
       THEN /\ resp' = Resp(200, "page", <<>>, 0, <<>>)
            /\ trace' = Append(trace, Ev("res.send", 200))
            /\ phase' = "done"
       ELSE UNCHANGED <<resp, trace, phase>>
  /\ UNCHANGED <<walkVars, job, err, renderer, layoutRun, pathVars>>

\* .then(function (result) { res.send(result); })
SendResult(r) ==
  /\ pc[r] = "acked"
  /\ resStatus' = [resStatus EXCEPT ![r] = 200]
  /\ resBody' = [resBody EXCEPT ![r] = value[r]]
  /\ pc' = [pc EXCEPT ![r] = "sent"]
  /\ UNCHANGED rejection
  /\ UNCHANGED <<admitted, clock, body, flake, pageReference, slotState, pageData, ops, batched,
                 value, dbPuts, errlog, failure, issued, reissued>>
  /\ IF Walked
       THEN /\ resp' = Resp(200, "page", <<>>, 0, <<>>)
            /\ trace' = Append(trace, Ev("res.send", 200))
            /\ phase' = "done"
       ELSE UNCHANGED <<resp, trace, phase>>
  /\ UNCHANGED <<walkVars, job, err, renderer, layoutRun, pathVars>>

\* .catch(function (err) { log.error('...' + err.stack); }): the failure is
\* logged and nothing is written to res; reading the stack of undefined
\* throws before log.error is called
CatchHandler(r) ==
  /\ pc[r] = "rejected"
  /\ IF rejection[r] = "undefined"
       THEN /\ pc' = [pc EXCEPT ![r] = "thrown"]
            /\ errlog' = errlog
            /\ IF Walked
                 THEN trace' = Append(trace, Ev("throw", 0))
                 ELSE UNCHANGED trace
       ELSE /\ pc' = [pc EXCEPT ![r] = "caught"]
            /\ errlog' = [errlog EXCEPT ![r] = @ + 1]
            /\ IF Walked
                 THEN trace' = Append(trace, Ev("log.error", 0))
                 ELSE UNCHANGED trace
  /\ UNCHANGED <<admitted, clock, body, flake, pageReference, slotState, pageData, ops, batched,
                 value, dbPuts, resStatus, resBody, failure, rejection, issued, reissued>>
  /\ UNCHANGED <<walkVars, phase, job, err, renderer, resp, layoutRun, pathVars>>

NextPage ==
  \/ Tick
  \/ \E r \in Requests, b \in Bodies : createPage(r, b)
  \/ \E r \in Requests, s \in Slots : ResolveSlot(r, s)
  \/ \E r \in Requests, s \in Slots, e \in PageRejections : RejectSlot(r, s, e)
  \/ \E r \in Requests : PropsThen(r)
  \/ \E r \in Requests : BatchAck(r)
  \/ \E r \in Requests, e \in PageRejections : BatchFail(r, e)
  \/ \E r \in Requests : SendResult(r)
  \/ \E r \in Requests : CatchHandler(r)

----------------------------------------------------------------------------
(***************************************************************************)
(* Strings and the path helpers.                                           *)
(***************************************************************************)

\* the place of the first sep in s, 0 when there is none
IndexOf(s, sep) ==
  IF \E i \in 1..Len(s) : s[i] = sep
    THEN CHOOSE i \in 1..Len(s) : s[i] = sep /\ \A j \in 1..(i - 1) : s[j] # sep
    ELSE 0

\* the place of the last sep in s, 0 when there is none
LastIndexOf(s, sep) ==
  IF \E i \in 1..Len(s) : s[i] = sep
    THEN CHOOSE i \in 1..Len(s) : s[i] = sep /\ \A j \in (i + 1)..Len(s) : s[j] # sep
    ELSE 0

\* String.prototype.split(sep): the pieces between the separators, empty
\* pieces included
RECURSIVE Split(_, _)
Split(s, sep) ==
  LET i == IndexOf(s, sep)
  IN  IF i = 0 THEN <<s>>
      ELSE <<SubSeq(s, 1, i - 1)>> \o Split(SubSeq(s, i + 1, Len(s)), sep)

\* removeExtension cutting at the last '.' only
removeExtensionLast(path) ==
  LET i == LastIndexOf(path, ".")
  IN  IF i = 0 THEN path ELSE SubSeq(path, 1, i - 1)

\* path.split('.').shift()
removeExtension(path) == Head(Split(path, "."))

\* path.split('?').shift()
removeQueryString(path) == Head(Split(path, "?"))

normalizePath(path) == removeExtension(removeQueryString(path))

PathTokens == {"/", ".", "?", "a"}
PathsUpTo(n) == UNION { [1..k -> PathTokens] : k \in 0..n }

InitPath ==
  /\ npIn \in PathsUpTo(MaxPathLen)
  /\ npOut = <<>>

PathOff ==
  /\ npIn = <<>>
  /\ npOut = <<>>

\* normalizePath applied to the path, then to its own result
Normalize ==
  /\ Len(npOut) < 2
  /\ npOut' = Append(npOut, normalizePath(IF npOut = <<>> THEN npIn ELSE npOut[Len(npOut)]))
  /\ UNCHANGED npIn
  /\ UNCHANGED <<pageVars, routeVars>>

NextPath == Normalize

----------------------------------------------------------------------------
(***************************************************************************)
(* The router builder (module.exports) and a request's walk.               *)
(***************************************************************************)

Hosts == {"h1", "h2"}

Site(slug, host, path) == [slug |-> slug, host |-> host, path |-> path]

\* the sites a registry is drawn from
SitePool ==
  { Site("root", "h1", <<"/">>),
    Site("foo",  "h1", <<"/", "foo">>),
    Site("bar",  "h1", <<"/", "foo", "/", "bar">>),
    Site("blog", "h2", <<"/", "blog", "/">>) }

\* the registries: up to MaxSites sites of the pool, in any order
Registries ==
  { reg \in UNION { [1..n -> SitePool] : n \in 1..MaxSites } :
      \A i, j \in DOMAIN reg : i # j => reg[i] # reg[j] }

\* siteService.hosts(): the distinct hosts, in the order of the registry
RECURSIVE hosts(_)
hosts(reg) ==
  IF reg = <<>> THEN <<>>
  ELSE LET front == hosts(SubSeq(reg, 1, Len(reg) - 1))
           h == reg[Len(reg)].host
       IN  IF \E i \in 1..Len(front) : front[i] = h THEN front ELSE Append(front, h)

\* a.path.split('/').length
Depth(site) == Len(Split(site.path, "/"))

\* Array.prototype.sort under the comparator of depths, for the short arrays
\* of a registry: an insertion sort, which keeps equal depths in their order
RECURSIVE sortByDepth(_)
sortByDepth(sites) ==
  IF sites = <<>> THEN <<>>
  ELSE LET front == sortByDepth(SubSeq(sites, 1, Len(sites) - 1))
           x == sites[Len(sites)]
           k == Cardinality({ i \in 1..Len(front) : Depth(front[i]) <= Depth(x) })
       IN  SubSeq(front, 1, k) \o <<x>> \o SubSeq(front, k + 1, Len(front))

\* _.filter(sitesMap, {host: host}).sort(...)
SitesOnThisHost(reg, host) ==
  LET OnHost(site) == site.host = host
  IN  sortByDepth(SelectSeq(reg, OnHost))

\* the segment patterns of a route path
Lit(t) == [kind |-> "lit", text |-> t]
Param == [kind |-> "param", text |-> ""]
ParamExt == [kind |-> "paramext", text |-> ""]

Use(mount, fn, slug) ==
  [kind |-> "use", mount |-> mount, fn |-> fn, slug |-> slug,
   method |-> "", pattern |-> <<>>]
Route(method, pattern, fn) ==
  [kind |-> "route", mount |-> <<"/">>, fn |-> fn, slug |-> "",
   method |-> method, pattern |-> pattern]

\* addComponentRoutes(router): the layers it adds, in order
addComponentRoutes ==
  << Use(<<"/">>, "bodyParser", ""),
     Route("GET", <<Lit("sandbox"), Param>>, "getRouteFromSandbox"),
     Route("GET", <<Lit("components")>>, "notImplemented"),
     Route("GET", <<Lit("components"), ParamExt>>, "routeByExtension"),
     Route("GET", <<Lit("components"), Param>>, "getRouteFromComponent"),
     Route("PUT", <<Lit("components"), Param>>, "putRouteFromComponent"),
     Route("GET", <<Lit("components"), Param, Lit("instances")>>, "listAllWithPrefix"),
     Route("GET", <<Lit("components"), Param, Lit("instances"), ParamExt>>, "routeByExtension"),
     Route("GET", <<Lit("components"), Param, Lit("instances"), Param>>, "getRouteFromComponent"),
     Route("PUT", <<Lit("components"), Param, Lit("instances"), Param>>, "putRouteFromComponent"),
     Route("GET", <<Lit("components"), Param, Lit("schema")>>, "getSchema"),
     Route("GET", <<Lit("pages")>>, "listAllWithPrefix"),
     Route("GET", <<Lit("pages"), Param>>, "getRouteFromDB"),
     Route("PUT", <<Lit("pages"), Param>>, "putRouteFromDB"),
     Route("POST", <<Lit("pages")>>, "createPage"),
     Route("GET", <<Lit("uris")>>, "listAllWithPrefix"),
     Route("GET", <<Lit("uris"), Param>>, "getRouteFromDB"),
     Route("PUT", <<Lit("uris"), Param>>, "putRouteFromDB") >>

\* the layers one site adds to hostMiddleware
SiteLayers(site) ==
  << Use(site.path, "addSiteLocals", site.slug),
     Use(site.path, "addEditMode", site.slug) >>
  \o addComponentRoutes
  \o << Use(site.path, "siteController", site.slug) >>

\* _.map(sitesOnThisHost, ...): the layers of every site, in the sorted order
RECURSIVE HostLayers(_)
HostLayers(sites) ==
  IF sites = <<>> THEN <<>>
  ELSE SiteLayers(Head(sites)) \o HostLayers(Tail(sites))

\* the non-empty pieces of a path between its slashes
Segments(path) ==
  LET NonEmpty(seg) == seg # <<>>
  IN  SelectSeq(Split(path, "/"), NonEmpty)

\* router.use(mount, fn): the layer runs for the mount path and what lies under it
MountMatches(mount, path) ==
  LET m == Segments(mount)
      q == Segments(path)
  IN  /\ Len(m) <= Len(q)
      /\ \A i \in 1..Len(m) : q[i] = m[i]

\* one segment against its pattern; ':name.:ext' takes the text before the
\* last '.' as name and the text after it as ext, neither empty
SegMatches(pat, seg) ==
  CASE pat.kind = "lit" -> seg = <<pat.text>>
    [] pat.kind = "param" -> Len(seg) >= 1
    [] pat.kind = "paramext" ->
         LET i == LastIndexOf(seg, ".") IN i >= 2 /\ i < Len(seg)

\* router.get/put/post(path, fn): the method and the whole path match
RouteMatches(layer, r) ==
  LET q == Segments(r.path)
  IN  /\ layer.method = r.method
      /\ Len(q) = Len(layer.pattern)
      /\ \A i \in 1..Len(q) : SegMatches(layer.pattern[i], q[i])

LayerMatches(layer, r) ==
  IF layer.kind = "use" THEN MountMatches(layer.mount, r.path) ELSE RouteMatches(layer, r)

\* req.originalUrl: the path and the query string
OriginalUrl(r) ==
  r.path \o (IF r.edit = Undefined THEN <<>> ELSE <<"?", "edit", "=", r.edit>>)

\* !!(req.query.edit): a missing or empty parameter is falsy
EditModeOf(r) == r.edit \notin {Undefined, ""}

NoLocals == [has |-> {}, site |-> "", url |-> <<>>, isEditMode |-> FALSE, layout |-> ""]
NoRequest == [method |-> "", host |-> "", path |-> <<>>, edit |-> Undefined, accept |-> ""]

Methods == {"GET", "POST"}
RequestPaths ==
  { <<"/", "foo", "/", "bar">>,
    <<"/", "components", "/", "x">>,
    <<"/", "components", "/", "x", ".", "html">>,
    <<"/", "components", "/", "x", ".", "HTML">>,
    <<"/", "components", "/", "x", ".", "yaml">>,
    <<"/", "components", "/", "x", ".", "json">>,
    <<"/", "components", "/", "x", ".", "y", ".", "json">>,
    <<"/", "components", "/", "x", "/", "instances", "/", "i", ".", "html">>,
    <<"/", "pages">>,
    <<"/", "blog", "/", "post">> }
EditParams == {Undefined, "", "true"}
\* the Accept headers a request comes with
Accepts == {"application/json", "text/html", "text/plain"}

(***************************************************************************)
(* Failures, responses and the two error renderers.                        *)
(***************************************************************************)

\* what a computation can be rejected with: an Error instance, another
\* object (with or without a message property), or nothing at all
Failure(kind, name, hasMessage, message) ==
  [kind |-> kind, name |-> name, hasMessage |-> hasMessage, message |-> message]
NoFailure == Failure("none", "", FALSE, <<>>)
Messages ==
  { <<"boom">>, <<"ENOENT", "open">>, <<"key", "not found">>, <<"Not Found">> }
Failures ==
  { Failure("Error", n, TRUE, m) : n \in {"Error", "NotFoundError"}, m \in Messages }
  \cup { Failure("object", n, TRUE, m) :
           n \in {Undefined, "NotFoundError"}, m \in {<<"boom">>, <<"key", "not found">>} }
  \cup { Failure("object", n, FALSE, <<>>) : n \in {Undefined, "NotFoundError"} }
  \cup { Failure("undefined", Undefined, FALSE, <<>>) }

\* the TypeError of reading a property of undefined
TypeError == Failure("Error", "TypeError", TRUE, <<"Cannot read property", "of undefined">>)

\* what a renderer does: its calls, the response it leaves, whether it threw
Outcome(trace_, resp_, threw) == [trace |-> trace_, resp |-> resp_, threw |-> threw]

\* res.format: the callback chosen for the request's Accept header
Negotiate(acceptHeader) ==
  CASE acceptHeader = "application/json" -> "json"
    [] acceptHeader = "text/html" -> "html"
    [] OTHER -> "default"

\* res.status(code).format({json, html, default})
Format(code, acceptHeader, jsonMessage, htmlText) ==
  LET type == Negotiate(acceptHeader)
  IN  CASE type = "json" ->
             Outcome(<<Ev("res.status", code), Ev("res.send", code)>>,
                     Resp(code, "json", jsonMessage, code, <<>>), FALSE)
        [] type = "html" ->
             Outcome(<<Ev("res.status", code), Ev("res.send", code)>>,
                     Resp(code, "html", htmlText, 0, <<>>), FALSE)
        [] OTHER ->
             Outcome(<<Ev("res.status", code), Ev("res.sendStatus", code)>>,
                     Resp(code, "statusText", <<>>, 0, <<>>), FALSE)

\* notFound(err, res): an Error is logged; any other truthy err takes the
\* place of res, and a value that is no response has no status() to call
notFound(e, hasRes, acceptHeader) ==
  LET logged == IF e.kind = "Error" THEN <<Ev("log.info", 0)>> ELSE <<>>
      isResponse == IF e.kind = "Error" THEN hasRes ELSE FALSE
      out == Format(404, acceptHeader, <<"Not Found">>, <<"404 Not Found">>)
  IN  IF isResponse
      THEN Outcome(logged \o out.trace, out.resp, FALSE)
      ELSE Outcome(logged \o <<Ev("throw", 0)>>, NoResp, TRUE)

\* a variant of serverError that writes the log after the response
serverErrorLogLast(e, hasRes, acceptHeader) ==
  LET out == Format(500, acceptHeader, e.message, <<"500 Server Error">>)
  IN  IF hasRes
      THEN Outcome(out.trace \o <<Ev("log.error", 0)>>, out.resp, FALSE)
      ELSE Outcome(<<Ev("throw", 0)>>, NoResp, TRUE)

\* serverError(err, res): log.error(err.stack), then the response
serverError(e, hasRes, acceptHeader) ==
  LET logged == <<Ev("log.error", 0)>>
      out == Format(500, acceptHeader, e.message, <<"500 Server Error">>)
  IN  IF hasRes
      THEN Outcome(logged \o out.trace, out.resp, FALSE)
      ELSE Outcome(logged \o <<Ev("throw", 0)>>, NoResp, TRUE)

\* String.prototype.indexOf(text) !== -1 on a message
Contains(message, text) == \E i \in 1..Len(message) : message[i] = text

\* the test of handleError, its operands read from left to right: err.name of
\* undefined throws, and so does indexOf of a message that is not there
Classify(e) ==
  CASE e.kind = "undefined" -> "throws"
    [] e.name = "NotFoundError" -> "notFound"
    [] ~e.hasMessage -> "throws"
    [] Contains(e.message, "ENOENT") -> "notFound"
    [] Contains(e.message, "not found") -> "notFound"
    [] OTHER -> "serverError"

(***************************************************************************)
(* The handlers of addComponentRoutes.                                     *)
(***************************************************************************)

\* the computation given to expectJSON or expectHTML, and whether res came with it
Job(envelope, fn, key, hasRes) ==
  [envelope |-> envelope, fn |-> fn, key |-> key, res |-> hasRes]
NoJob == Job("none", "", <<>>, FALSE)
expectJSON(fn, key, hasRes) == Job("json", fn, key, hasRes)
expectHTML(fn, key, hasRes) == Job("html", fn, key, hasRes)

\* what a handler leaves when it returns: the Accept header, the computation
\* it started, the response it sent, its calls, the keys it set on res.locals
Effect(acceptHeader, job_, resp_, trace_, keys) ==
  [accept |-> acceptHeader, job |-> job_, resp |-> resp_, trace |-> trace_, has |-> keys]

\* String.prototype.toLowerCase
ToLowerCase(text) ==
  [i \in 1..Len(text) |->
     CASE text[i] = "HTML" -> "html"
       [] text[i] = "YAML" -> "yaml"
       [] text[i] = "JSON" -> "json"
       [] OTHER -> text[i]]

\* req.params.ext of a ':name.:ext' route: the last segment after its last '.'
ParamsExt(r) ==
  LET q == Segments(r.path)
      seg == q[Len(q)]
  IN  SubSeq(seg, LastIndexOf(seg, ".") + 1, Len(seg))

getRouteFromSandbox(r) ==
  Effect(r.accept,
         expectHTML("renderComponent",
                    <<"/", "components", "/", "sandbox", "/", "instances", "/", "0">>, TRUE),
         NoResp, <<>>, {"name"})

getRouteFromComponent(r) ==
  Effect(r.accept, expectJSON("getComponentData", normalizePath(OriginalUrl(r)), TRUE),
         NoResp, <<>>, {})

putRouteFromComponent(r) ==
  Effect(r.accept, expectJSON("putComponentData", normalizePath(OriginalUrl(r)), TRUE),
         NoResp, <<>>, {})

getRouteFromDB(r) ==
  Effect(r.accept, expectJSON("db.get", normalizePath(OriginalUrl(r)), TRUE),
         NoResp, <<>>, {})

putRouteFromDB(r) ==
  Effect(r.accept, expectJSON("db.put", normalizePath(OriginalUrl(r)), TRUE),
         NoResp, <<>>, {})

getSchema(r) ==
  Effect(r.accept,
         expectJSON("getSchema", removeExtension(removeQueryString(OriginalUrl(r))), TRUE),
         NoResp, <<>>, {})

renderComponent(r) ==
  Effect(r.accept,
         expectHTML("renderComponent",
                    removeExtension(removeQueryString(OriginalUrl(r))), TRUE),
         NoResp, <<>>, {})

notImplemented(r) ==
  Effect(r.accept, NoJob, Resp(501, "statusText", <<>>, 0, <<>>),
         <<Ev("log.warn", 501), Ev("res.sendStatus", 501)>>, {})

\* the shapes of what db.list returns
ListShapes == {"promise", "stream", "other"}

\* listAllWithPrefix: a promise goes to expectJSON, which is not given res; a
\* stream is piped to res; anything else is thrown
listAllWithPrefix(r, shape) ==
  LET path == normalizePath(OriginalUrl(r))
  IN  CASE shape = "promise" ->
             Effect(r.accept, expectJSON("db.list", path, FALSE), NoResp, <<>>, {})
        [] shape = "stream" ->
             Effect(r.accept, NoJob, Resp(200, "stream", <<>>, 0, path),
                    <<Ev("pipe", 0)>>, {})
        [] OTHER ->
             Effect(r.accept, NoJob, NoResp, <<Ev("throw", 0)>>, {})

\* a variant of routeByExtension whose 'yaml' case falls through to 'json'
\* (the break of the case left out)
routeByExtensionFallThrough(r) ==
  LET ext == ToLowerCase(ParamsExt(r))
      logged == <<Ev("log.info", 0)>>
      WithAccept(a, eff) == [eff EXCEPT !.accept = a, !.trace = logged \o @]
  IN  CASE ext = <<"html">> ->
             WithAccept("text/html", renderComponent([r EXCEPT !.accept = "text/html"]))
        [] OTHER ->
             WithAccept("application/json",
                        getRouteFromComponent([r EXCEPT !.accept = "application/json"]))

\* routeByExtension: the Accept header is set from req.params.ext and the
\* request handed on
routeByExtension(r) ==
  LET ext == ToLowerCase(ParamsExt(r))
      logged == <<Ev("log.info", 0)>>
      WithAccept(a, eff) == [eff EXCEPT !.accept = a, !.trace = logged \o @]
  IN  CASE ext = <<"html">> ->
             WithAccept("text/html", renderComponent([r EXCEPT !.accept = "text/html"]))
        [] ext = <<"yaml">> ->
             WithAccept("text/yaml", notImplemented([r EXCEPT !.accept = "text/yaml"]))
        [] OTHER ->
             WithAccept("application/json",
                        getRouteFromComponent([r EXCEPT !.accept = "application/json"]))

\* createPage is the handler itself: it answers through its own chain of
\* promises (StartPage and the page actions), not through an envelope
createPageRoute(r) == Effect(r.accept, Job("page", "createPage", <<>>, TRUE), NoResp, <<>>, {})

\* what the handler named fn can leave for the request r
HandlerEffects(fn, r) ==
  CASE fn = "getRouteFromSandbox" -> {getRouteFromSandbox(r)}
    [] fn = "notImplemented" -> {notImplemented(r)}
    [] fn = "routeByExtension" -> {routeByExtension(r)}
    [] fn = "getRouteFromComponent" -> {getRouteFromComponent(r)}
    [] fn = "putRouteFromComponent" -> {putRouteFromComponent(r)}
    [] fn = "listAllWithPrefix" -> { listAllWithPrefix(r, shape) : shape \in ListShapes }
    [] fn = "getSchema" -> {getSchema(r)}
    [] fn = "getRouteFromDB" -> {getRouteFromDB(r)}
    [] fn = "putRouteFromDB" -> {putRouteFromDB(r)}
    [] OTHER -> {createPageRoute(r)}

\* the route params and the layout a site's controller gives to setLayout
LayoutParams == { {}, {"id"} }
LayoutNames == {"user-page"}
NoLayoutRun == [ran |-> FALSE, params |-> {}, before |-> NoLocals, after |-> NoLocals]

InitRouteWith(reg) ==
  /\ sitesMap = reg
  /\ siteHosts = hosts(reg)
  /\ hostsDone = 0
  /\ sitesOnThisHost = [h \in Hosts |-> <<>>]
  /\ hostMiddleware = [h \in Hosts |-> <<>>]
  /\ req = NoRequest
  /\ idx = 0
  /\ locals = NoLocals
  /\ phase = "building"
  /\ job = NoJob
  /\ err = NoFailure
  /\ renderer = "none"
  /\ trace = <<>>
  /\ resp = NoResp
  /\ layoutRun = NoLayoutRun

InitRoute == \E reg \in Registries : InitRouteWith(reg)

RouteOff == InitRouteWith(<<>>)

\* module.exports, one turn of its loop over siteHosts: the sites of the host
\* sorted, their layers added to the host's router, the router put on app
BuildHost ==
  /\ phase = "building"
  /\ hostsDone < Len(siteHosts)
  /\ LET host == siteHosts[hostsDone + 1]
         sorted == SitesOnThisHost(sitesMap, host)
     IN  /\ sitesOnThisHost' = [sitesOnThisHost EXCEPT ![host] = sorted]
         /\ hostMiddleware' = [hostMiddleware EXCEPT ![host] = HostLayers(sorted)]
  /\ hostsDone' = hostsDone + 1
  /\ UNCHANGED <<sitesMap, siteHosts, req, idx, locals, phase>>
  /\ UNCHANGED <<handlerVars, pageVars, pathVars>>

\* module.exports returns app
Listen ==
  /\ phase = "building"
  /\ hostsDone = Len(siteHosts)
  /\ phase' = "listening"
  /\ UNCHANGED <<sitesMap, siteHosts, hostsDone, sitesOnThisHost, hostMiddleware,
                 req, idx, locals>>
  /\ UNCHANGED <<handlerVars, pageVars, pathVars>>

\* a request comes in and vhost hands it to the router of its host
Receive(r) ==
  /\ phase = "listening"
  /\ \E i \in 1..Len(siteHosts) : siteHosts[i] = r.host
  /\ req' = r
  /\ idx' = 1
  /\ locals' = NoLocals
  /\ phase' = "walking"
  /\ UNCHANGED <<sitesMap, siteHosts, hostsDone, sitesOnThisHost, hostMiddleware>>
  /\ UNCHANGED <<handlerVars, pageVars, pathVars>>

Chain == hostMiddleware[req.host]
AtLayer == phase = "walking" /\ idx <= Len(Chain)

\* the layer does not match the request: the router goes on to the next one
SkipLayer ==
  /\ AtLayer
  /\ ~LayerMatches(Chain[idx], req)
  /\ idx' = idx + 1
  /\ UNCHANGED <<sitesMap, siteHosts, hostsDone, sitesOnThisHost, hostMiddleware,
                 req, locals, phase>>
  /\ UNCHANGED <<handlerVars, pageVars, pathVars>>

\* addSiteLocals(slug): res.locals.url and res.locals.site are set, next()
addSiteLocals ==
  /\ AtLayer
  /\ Chain[idx].fn = "addSiteLocals"
  /\ LayerMatches(Chain[idx], req)
  /\ locals' = [locals EXCEPT
                  !.url = <<"http", "://", req.host>> \o OriginalUrl(req),
                  !.site = Chain[idx].slug,
                  !.has = @ \cup {"url", "site"}]
  /\ idx' = idx + 1
  /\ UNCHANGED <<sitesMap, siteHosts, hostsDone, sitesOnThisHost, hostMiddleware,
                 req, phase>>
  /\ UNCHANGED <<handlerVars, pageVars, pathVars>>

\* addEditMode(): res.locals.isEditMode is set, next()
addEditMode ==
  /\ AtLayer
  /\ Chain[idx].fn = "addEditMode"
  /\ LayerMatches(Chain[idx], req)
  /\ locals' = [locals EXCEPT
                  !.isEditMode = EditModeOf(req),
                  !.has = @ \cup {"isEditMode"}]
  /\ idx' = idx + 1
  /\ UNCHANGED <<sitesMap, siteHosts, hostsDone, sitesOnThisHost, hostMiddleware,
                 req, phase>>
  /\ UNCHANGED <<handlerVars, pageVars, pathVars>>

\* bodyParser.json(): the body is parsed, next()
BodyParser ==
  /\ AtLayer
  /\ Chain[idx].fn = "bodyParser"
  /\ LayerMatches(Chain[idx], req)
  /\ idx' = idx + 1
  /\ UNCHANGED <<sitesMap, siteHosts, hostsDone, sitesOnThisHost, hostMiddleware,
                 req, locals, phase>>
  /\ UNCHANGED <<handlerVars, pageVars, pathVars>>

\* a route of addComponentRoutes matches: its handler runs and the request
\* goes no further down the chain
RunHandler ==
  /\ AtLayer
  /\ Chain[idx].kind = "route"
  /\ LayerMatches(Chain[idx], req)
  /\ \E eff \in HandlerEffects(Chain[idx].fn, req) :
       /\ req' = [req EXCEPT !.accept = eff.accept]
       /\ job' = eff.job
       /\ resp' = eff.resp
       /\ trace' = trace \o eff.trace
       /\ locals' = [locals EXCEPT !.has = @ \cup eff.has]
  /\ IF Chain[idx].fn = "createPage"
       THEN \E b \in Bodies : StartPage(1, b)
       ELSE UNCHANGED pageVars
  /\ phase' = "handled"
  /\ UNCHANGED <<sitesMap, siteHosts, hostsDone, sitesOnThisHost, hostMiddleware, idx>>
  /\ UNCHANGED <<err, renderer, layoutRun, pathVars>>

JobPending == phase = "handled" /\ job.envelope \in {"json", "html"}

\* expectJSON/expectHTML, the computation resolves: res.json(result) or
\* res.send(result); without res the call throws into the catch handler
Resolve ==
  /\ JobPending
  /\ IF job.res
     THEN /\ resp' = Resp(200, IF job.envelope = "json" THEN "json" ELSE "html",
                          <<job.fn>>, 0, job.key)
          /\ trace' = trace \o <<Ev(IF job.envelope = "json" THEN "res.json" ELSE "res.send", 200)>>
          /\ phase' = "done"
          /\ err' = err
     ELSE /\ err' = TypeError
          /\ phase' = "failed"
          /\ UNCHANGED <<resp, trace>>
  /\ UNCHANGED <<sitesMap, siteHosts, hostsDone, sitesOnThisHost, hostMiddleware,
                 req, idx, locals>>
  /\ UNCHANGED <<job, renderer, layoutRun, pageVars, pathVars>>

\* listAllWithPrefix, the stream piped to res emits 'error': the listener
\* calls log.error
StreamError ==
  /\ phase = "handled"
  /\ resp.kind = "stream"
  /\ \A i \in 1..Len(trace) : trace[i].op # "log.error"
  /\ trace' = Append(trace, Ev("log.error", 0))
  /\ UNCHANGED <<sitesMap, siteHosts, hostsDone, sitesOnThisHost, hostMiddleware,
                 req, idx, locals, phase>>
  /\ UNCHANGED <<job, err, renderer, resp, layoutRun, pageVars, pathVars>>

\* expectJSON/expectHTML, the computation throws or is rejected with e
Reject(e) ==
  /\ JobPending
  /\ err' = e
  /\ phase' = "failed"
  /\ UNCHANGED <<sitesMap, siteHosts, hostsDone, sitesOnThisHost, hostMiddleware,
                 req, idx, locals>>
  /\ UNCHANGED <<job, renderer, trace, resp, layoutRun, pageVars, pathVars>>

\* .catch(handleError(res)): the failure goes to notFound or to serverError,
\* unless reading err.name or err.message throws first
handleError ==
  /\ phase = "failed"
  /\ LET class == Classify(err)
         out == CASE class = "notFound" -> notFound(err, job.res, req.accept)
                  [] class = "serverError" -> serverError(err, job.res, req.accept)
                  [] OTHER -> Outcome(<<Ev("throw", 0)>>, NoResp, TRUE)
     IN  /\ renderer' = (IF class = "throws" THEN "none" ELSE class)
         /\ trace' = trace \o out.trace
         /\ resp' = out.resp
         /\ phase' = (IF out.threw THEN "crashed" ELSE "done")
  /\ UNCHANGED <<sitesMap, siteHosts, hostsDone, sitesOnThisHost, hostMiddleware,
                 req, idx, locals>>
  /\ UNCHANGED <<job, err, layoutRun, pageVars, pathVars>>

\* the handler setLayout(route, layout) puts on the site's router, when its
\* route matches: res.locals = req.params, res.locals.layout = layout, next()
setLayout ==
  /\ AtLayer
  /\ Chain[idx].fn = "siteController"
  /\ LayerMatches(Chain[idx], req)
  /\ req.method = "GET"
  /\ \E params \in LayoutParams, layout \in LayoutNames :
       /\ locals' = [NoLocals EXCEPT !.has = params \cup {"layout"}, !.layout = layout]
       /\ layoutRun' = [ran |-> TRUE, params |-> params, before |-> locals, after |-> locals']
  /\ idx' = idx + 1
  /\ UNCHANGED <<sitesMap, siteHosts, hostsDone, sitesOnThisHost, hostMiddleware,
                 req, phase>>
  /\ UNCHANGED <<job, err, renderer, trace, resp, pageVars, pathVars>>

\* the router of the site's controller: one of its routes answers, or none
\* matches and the request goes on
SiteController ==
  /\ AtLayer
  /\ Chain[idx].fn = "siteController"
  /\ LayerMatches(Chain[idx], req)
  /\ \/ phase' = "site" /\ idx' = idx
     \/ phase' = phase /\ idx' = idx + 1
  /\ UNCHANGED <<sitesMap, siteHosts, hostsDone, sitesOnThisHost, hostMiddleware,
                 req, locals>>
  /\ UNCHANGED <<handlerVars, pageVars, pathVars>>

\* the request has passed every layer of the host's router
EndOfChain ==
  /\ phase = "walking"
  /\ idx > Len(Chain)
  /\ phase' = "passed"
  /\ UNCHANGED <<sitesMap, siteHosts, hostsDone, sitesOnThisHost, hostMiddleware,
                 req, idx, locals>>
  /\ UNCHANGED <<handlerVars, pageVars, pathVars>>

RouteRequests ==
  { [method |-> m, host |-> h, path |-> q, edit |-> e, accept |-> a] :
      m \in Methods, h \in Hosts, q \in RequestPaths, e \in EditParams, a \in Accepts }

NextRoute ==
  \/ BuildHost
  \/ Listen
  \/ \E r \in RouteRequests : Receive(r)
  \/ SkipLayer
  \/ addSiteLocals
  \/ addEditMode
  \/ BodyParser
  \/ RunHandler
  \/ Resolve
  \/ \E e \in Failures : Reject(e)
  \/ handleError
  \/ StreamError
  \/ setLayout
  \/ SiteController
  \/ EndOfChain
  \/ Tick
  \/ \E r \in Requests, s \in Slots : ResolveSlot(r, s)
  \/ \E r \in Requests, s \in Slots, e \in PageRejections : RejectSlot(r, s, e)
  \/ \E r \in Requests : PropsThen(r)
  \/ \E r \in Requests : BatchAck(r)
  \/ \E r \in Requests, e \in PageRejections : BatchFail(r, e)
  \/ \E r \in Requests : SendResult(r)
  \/ \E r \in Requests : CatchHandler(r)

----------------------------------------------------------------------------
Init == InitPageWith(1) /\ RouteOff /\ PathOff

Next == NextPage

\* one page-creation transaction, under every interleaving of its slots
Spec == Init /\ [][Next]_vars

InitOfPages == InitPageWith(MaxReq) /\ RouteOff /\ PathOff

\* MaxReq page-creation transactions in flight together
SpecPages == InitOfPages /\ [][NextPage]_vars

InitOfRoute == InitPageWith(1) /\ InitRoute /\ PathOff

\* the router builder, a request's walk through its host's chain, and what
\* the handler it reaches does
SpecRoute == InitOfRoute /\ [][NextRoute]_vars

\* a registry of one site on each host
TwoHosts == << Site("root", "h1", <<"/">>), Site("blog", "h2", <<"/", "blog", "/">>) >>

InitOfEnvelope == InitPageWith(1) /\ InitRouteWith(TwoHosts) /\ PathOff

\* the same steps for the registry TwoHosts
SpecEnvelope == InitOfEnvelope /\ [][NextRoute]_vars

InitOfPath == InitPageWith(0) /\ RouteOff /\ InitPath

\* the path helpers
SpecPath == InitOfPath /\ [][NextPath]_vars

----------------------------------------------------------------------------
(***************************************************************************)
(* The page-creation transaction: claims C1 to C6.                         *)
(***************************************************************************)

NumSlots(r) == Cardinality(SlotsOf(r))
SomeSlotRejected(r) == \E s \in SlotsOf(r) : slotState[r][s] = "rejected"
AllSlotsFulfilled(r) == \A s \in SlotsOf(r) : slotState[r][s] = "fulfilled"
IsInstanceKey(k) == \E c \in Components : k.prefix = InstanceKey(c, 0).prefix

\* C1: once the failure of a slot's resolution or of the batch has been
\* handled, the caller has received a Server Error (500) response
C1_FailureAnswered ==
  \A r \in Requests : pc[r] \in {"caught", "thrown"} => resStatus[r] = 500

\* C2: when some slot's resolution of a request failed, db.batch was never
\* called for that request and no put of the request is in storage
C2_AllOrNothing ==
  \A r \in Requests :
    SomeSlotRejected(r) =>
      /\ batched[r] = <<>>
      /\ \A p \in dbPuts : p.by # r

\* one slot failed, another one resolved and staged its put, the failure was handled
C2_Witness ==
  \E r \in Requests :
    /\ SomeSlotRejected(r)
    /\ \E s \in SlotsOf(r) : slotState[r][s] = "fulfilled"
    /\ Len(ops[r]) >= 1
    /\ pc[r] = "caught"

\* C3: a request whose N slots all resolved makes exactly one db.batch call, of
\* N + 1 puts: the N component-instance puts, then the page put; the object
\* sent to the caller has _ref equal to the key of that page put
C3_OneBatchOfNPlusOne ==
  \A r \in Requests :
    LET N == NumSlots(r) IN
    /\ Len(batched[r]) <= 1
    /\ (pc[r] \notin {"idle", "pending"} /\ AllSlotsFulfilled(r)) => Len(batched[r]) = 1
    /\ Len(batched[r]) = 1 =>
         LET b == batched[r][1] IN
         /\ Len(b) = N + 1
         /\ \A i \in 1..Len(b) : b[i].type = "put"
         /\ b[N + 1].key = pageReference[r]
         /\ \A i \in 1..N : IsInstanceKey(b[i].key)
         /\ \A s \in SlotsOf(r) : \E i \in 1..N : b[i].key = pageData[r][s]
    /\ resStatus[r] = 200 =>
         /\ Len(batched[r]) = 1
         /\ resBody[r].ref = batched[r][1][N + 1].key

\* a request with two slots was answered with its page object
C3_Witness ==
  \E r \in Requests : NumSlots(r) = 2 /\ resStatus[r] = 200 /\ Len(batched[r][1]) = 3

\* C4: when db.batch has been called, or the page put has been staged, every
\* slot of the request has resolved and its put is among the staged ones
C4_JoinBeforeCommit ==
  \A r \in Requests :
    (\/ batched[r] # <<>>
     \/ \E i \in 1..Len(ops[r]) : ~IsInstanceKey(ops[r][i].key)
     \/ \E p \in dbPuts : p.by = r) =>
      \A s \in SlotsOf(r) :
        /\ slotState[r][s] = "fulfilled"
        /\ \E i \in 1..Len(ops[r]) : ops[r][i].key = pageData[r][s]
        /\ batched[r] # <<>> =>
             \E i \in 1..Len(batched[r][1]) : batched[r][1][i].key = pageData[r][s]

\* db.batch was called for a request of two slots whose second slot resolved
\* before its first one
C4_Witness ==
  \E r \in Requests :
    /\ NumSlots(r) = 2 /\ Len(batched[r]) = 1
    /\ batched[r][1][1].key = pageData[r][2]
    /\ batched[r][1][2].key = pageData[r][1]

\* C5: the page object is sent only when db.batch has acknowledged the
\* request's batch, and never for a request whose batch failed
C5_SendAfterAck ==
  \A r \in Requests :
    /\ resStatus[r] # 0 =>
         /\ resStatus[r] = 200
         /\ failure[r] = "none"
         /\ [key |-> pageReference[r], by |-> r] \in dbPuts
    /\ failure[r] = "batch" => resStatus[r] = 0 /\ (\A p \in dbPuts : p.by # r)

\* a request of one slot was answered with its page object, its two puts in storage
C5_Witness ==
  \E r \in Requests :
    /\ NumSlots(r) = 1
    /\ resStatus[r] = 200
    /\ resBody[r].ref = pageReference[r]
    /\ Cardinality({ p \in dbPuts : p.by = r }) = 2

\* C6: no identifier is returned twice by getUniqueId
C6_NoCollision == reissued = {}

----------------------------------------------------------------------------
(***************************************************************************)
(* The router builder and the request's walk: claims C7 to C9.             *)
(***************************************************************************)

\* p is the beginning of q, and q is longer
IsProperPrefix(p, q) == Len(p) < Len(q) /\ SubSeq(q, 1, Len(p)) = p

SlugsOn(h) == { sitesOnThisHost[h][i].slug : i \in 1..Len(sitesOnThisHost[h]) }

\* C7: in sitesOnThisHost of every host, of two sites where the path of one
\* is a prefix of the path of the other, the one of the longer path comes later
C7_LongerPathLater ==
  \A h \in Hosts :
    \A i, j \in 1..Len(sitesOnThisHost[h]) :
      IsProperPrefix(sitesOnThisHost[h][i].path, sitesOnThisHost[h][j].path) => i < j

\* C8: on a host whose sites are the one at '/' and the one at '/foo', a
\* request to '/foo/bar' that has passed the host's chain has the slug of the
\* '/foo' site as res.locals.site
C8_SpecificityWins ==
  (/\ phase = "passed"
   /\ req.path = <<"/", "foo", "/", "bar">>
   /\ SlugsOn(req.host) = {"root", "foo"}) =>
    locals.site = "foo"

\* C9: when a handler of addComponentRoutes runs, res.locals holds the site,
\* the url and isEditMode, set by the context middleware of some site
C9_ContextBeforeHandler ==
  phase = "handled" => {"site", "url", "isEditMode"} \subseteq locals.has

----------------------------------------------------------------------------
(***************************************************************************)
(* The path helpers: claim C10.                                            *)
(***************************************************************************)

\* C10: normalizePath applied to its own result gives that result again
C10_Idempotent ==
  Len(npOut) = 2 => npOut[2] = npOut[1]

\* normalizePath was applied twice to a path that has both an extension and
\* a query string, and its first application cut the path
C10_Witness ==
  /\ Len(npOut) = 2
  /\ \E i, j \in 1..Len(npIn) : npIn[i] = "." /\ npIn[j] = "?"
  /\ npOut[1] # npIn
  /\ npOut[1] # <<>>

----------------------------------------------------------------------------
(***************************************************************************)
(* The path helpers: claim C11.                                            *)
(***************************************************************************)

\* the path without its query string and without the extension of its last
\* segment, everything else kept
WithoutExtensionAndQuery(p) ==
  LET q == removeQueryString(p)
      dot == LastIndexOf(q, ".")
      slash == LastIndexOf(q, "/")
  IN  IF dot > slash THEN SubSeq(q, 1, dot - 1) ELSE q

\* C11: normalizePath gives the path with its query string removed and its
\* trailing '.extension' removed, and nothing else removed
C11_OnlyExtensionAndQueryRemoved ==
  Len(npOut) >= 1 => npOut[1] = WithoutExtensionAndQuery(npIn)

----------------------------------------------------------------------------
(***************************************************************************)
(* The page-creation transaction: claim C18.                               *)
(***************************************************************************)

\* C18: in every batch handed to db.batch, the value of the page put has the
\* layout of the request and, for every slot, the key of a component-instance
\* put of the same batch, whose value is the data resolved for the slot's
\* component and whose key lies under '/components/<name>/instances/'
C18_BatchIntegrity ==
  \A r \in Requests :
    \A n \in 1..Len(batched[r]) :
      LET b == batched[r][n]
          page == b[Len(b)]
      IN  /\ page.key = pageReference[r]
          /\ page.value.layout = body[r].layout
          /\ DOMAIN page.value.slots = SlotsOf(r)
          /\ \A s \in SlotsOf(r) :
               LET name == getComponentName(body[r].slots[s])
               IN  \E i \in 1..(Len(b) - 1) :
                     /\ b[i].key = page.value.slots[s]
                     /\ b[i].type = "put"
                     /\ b[i].key.prefix =
                          <<"/", "components", "/", name, "/", "instances", "/">>
                     /\ b[i].value = ComponentData(name)

\* a batch was handed to db.batch for a request with a layout and two slots
\* that name different components
C18_Witness ==
  \E r \in Requests :
    /\ Len(batched[r]) = 1
    /\ body[r].layout = "layoutRef"
    /\ NumSlots(r) = 2
    /\ getComponentName(body[r].slots[1]) # getComponentName(body[r].slots[2])

----------------------------------------------------------------------------
(***************************************************************************)
(* The response envelope and the error classifier: claims C12 to C17.      *)
(***************************************************************************)

\* the catch handler of the envelope has run on a failure
Classified == phase \in {"done", "crashed"} /\ err # NoFailure

\* the failure is of the NotFound kind, or its message has 'ENOENT' or 'not found'
IsNotFoundFailure(e) ==
  \/ e.name = "NotFoundError"
  \/ e.hasMessage /\ (Contains(e.message, "ENOENT") \/ Contains(e.message, "not found"))

\* C12: once a failure has been classified, notFound was the renderer called
\* if the failure's name is NotFoundError or its message contains 'ENOENT' or
\* 'not found', serverError was the renderer called for every other failure,
\* and so exactly one of the two was called
C12_ClassifiedByNameOrMessage ==
  Classified =>
    renderer = (IF IsNotFoundFailure(err) THEN "notFound" ELSE "serverError")

\* C13: for every failure a computation given to expectJSON or expectHTML
\* (together with res) can produce, handleError does not throw and leaves a
\* 404 or a 500 response
C13_ClassificationNeverThrows ==
  (Classified /\ job.res) =>
    /\ phase = "done"
    /\ resp.status \in {404, 500}

\* the response the spec gives for a class of failure and a negotiated type
Rendering(class, type, message) ==
  LET code == IF class = "notFound" THEN 404 ELSE 500
  IN  CASE type = "json" ->
             Resp(code, "json", IF class = "notFound" THEN <<"Not Found">> ELSE message,
                  code, <<>>)
        [] type = "html" ->
             Resp(code, "html",
                  IF class = "notFound" THEN <<"404 Not Found">> ELSE <<"500 Server Error">>,
                  0, <<>>)
        [] OTHER -> Resp(code, "statusText", <<>>, 0, <<>>)

\* C14: the response to a failure that handleError gave to a renderer is
\* the one its class and the negotiated type determine: 404 with
\* {message: 'Not Found', code: 404} or
\* 500 with {message: <the failure's message>, code: 500} for JSON, the fixed
\* bodies for HTML, the bare status for any other type
C14_RenderedByClassAndType ==
  (Classified /\ job.res /\ renderer # "none") =>
    resp = Rendering(renderer, Negotiate(req.accept), err.message)

\* a GET on a component or on an instance of one
IsComponentGet(r) ==
  LET q == Segments(r.path)
  IN  /\ r.method = "GET"
      /\ \/ Len(q) = 2 /\ q[1] = <<"components">>
         \/ Len(q) = 4 /\ q[1] = <<"components">> /\ q[3] = <<"instances">>

\* the extension of the request's last segment, in lower case; empty without one
ExtensionOf(r) ==
  LET q == Segments(r.path)
      seg == q[Len(q)]
      dot == LastIndexOf(seg, ".")
  IN  IF dot >= 2 /\ dot < Len(seg)
      THEN ToLowerCase(SubSeq(seg, dot + 1, Len(seg)))
      ELSE <<>>

\* C15: for a handled GET on a component or instance, '.html' has set the
\* Accept header to text/html and started the rendering collaborator; '.yaml'
\* has answered 501 with no collaborator started and the classifier never
\* called; '.json' and no extension have started getComponentData on the
\* normalized key, normalizePath of the request's url, and its result is what
\* is sent as JSON
C15_ExtensionDispatch ==
  (phase \in {"handled", "failed", "done", "crashed"} /\ IsComponentGet(req)) =>
    LET ext == ExtensionOf(req) IN
    CASE ext = <<"html">> ->
           /\ req.accept = "text/html"
           /\ job.envelope = "html" /\ job.fn = "renderComponent"
      [] ext = <<"yaml">> ->
           /\ resp.status = 501
           /\ job = NoJob /\ renderer = "none" /\ err = NoFailure
      [] OTHER ->
           /\ job.envelope = "json" /\ job.fn = "getComponentData"
           /\ job.key = normalizePath(OriginalUrl(req))
           /\ (phase = "done" /\ err = NoFailure) =>
                resp = Resp(200, "json", <<"getComponentData">>, 0,
                            normalizePath(OriginalUrl(req)))

\* a '.json' request with a query string was answered with the component's JSON
C15_Witness ==
  /\ phase = "done"
  /\ IsComponentGet(req)
  /\ ExtensionOf(req) = <<"json">>
  /\ req.edit = "true"
  /\ resp.status = 200
  /\ resp.kind = "json"

\* C16: when db.list returned a promise and it has settled, by resolving or
\* by rejecting with an Error, the caller has the collection as a JSON body
\* (status 200) or the 404 or 500 response of the classifier
C16_DeferredListAnswered ==
  (job.fn = "db.list" /\ phase \in {"done", "crashed"} /\ err.kind \in {"none", "Error"}) =>
    /\ resp.status \in {200, 404, 500}
    /\ resp.status = 200 => resp.kind = "json"

\* C17: every res.status(500) of the error classifier comes after a
\* log.error of the same request, whatever the negotiated type
C17_LoggedBeforeAnswered ==
  \A i \in 1..Len(trace) :
    (trace[i].op = "res.status" /\ trace[i].arg = 500) =>
      \E j \in 1..(i - 1) : trace[j].op = "log.error"

\* a failure was answered 500 through the classifier, for a client that does
\* not ask for JSON
C17_Witness ==
  /\ phase = "done"
  /\ renderer = "serverError"
  /\ resp.status = 500
  /\ Negotiate(req.accept) = "html"

(***************************************************************************)
(* setLayout: claim C19.                                                   *)
(***************************************************************************)

ContextFields == {"site", "url", "isEditMode"}

\* C19: after the handler installed by setLayout ran, res.locals has every
\* route param and the layout, and site, url and isEditMode are what the
\* context middleware had set
C19_SetLayoutOnlyAdds ==
  layoutRun.ran =>
    LET was == layoutRun.before
        now == layoutRun.after
    IN  /\ layoutRun.params \cup {"layout"} \subseteq now.has
        /\ (was.has \cap ContextFields) \subseteq now.has
        /\ now.site = was.site
        /\ now.url = was.url
        /\ now.isEditMode = was.isEditMode

====
